---- MODULE Spec2Model ----
(***************************************************************************)
(* A model of the lmk scraper (src/src/myscraper.rs, src/src/db.rs).       *)
(*                                                                         *)
(* Strings are sequences of one-character strings, so that writeln!,       *)
(* str::lines, str::contains and format! are computed character by         *)
(* character.  A parsed document is the sequence of its text nodes in      *)
(* document order.  Option<T> is a sequence of length 0 (None) or 1        *)
(* (Some).                                                                 *)
(***************************************************************************)
EXTENDS Integers, Sequences, FiniteSets, TLC

VARIABLES
    targets,     \* Scraper.targets: the target list, fixed at construction
    budget,      \* faults (a failing Db::get or Db::put, a kill of the process) the environment may still inject
    pc,          \* position of scrape(): "idle", "recv", "join", "scope_end"; "killed" when the process is
    runs,        \* number of scrape() calls started
    task,        \* per target: state of the scoped fetch thread of the current run
    resp,        \* per target: what the HTTP request of the current run met (Option)
    origSender,  \* whether scrape()'s own mpsc Sender is still alive
    chan,        \* the mpsc channel: messages sent and not yet received
    result,      \* value returned by the last scrape(): "none", "Ok", "Err"
    cache,       \* Scraper.target_cache: the kv table, key -> Option<value>
    cache0,      \* the kv table when the current run started
    log,         \* per target: what the current run did for it at the aggregation loop, in order
    hist,        \* per-target summaries of the completed runs, newest first
    log_writer,    \* Metrics.log_writer: "Some" while the handle holds its mpsc Sender
    writer_thread, \* the metrics writer thread: "running", "finished"
    mpc,           \* the owner of the Metrics handle: "alive", "joining" (in drop), "dropped"
    queue,         \* the metrics channel: entries sent and not yet received
    buffer,        \* the writer thread's buffer: Vec<u8>
    file,          \* the bytes of scraper-metrics.csv appended so far
    flushes,       \* the calls of write_buffer so far: the bytes handed over, and the outcome
    submitted,     \* the entries increment_num_requests was called with, in order
    sinkFaults,    \* failures of the metrics file the environment may still inject
    kvOps,         \* number of calls made on a Db that is used on its own
    kvLast,        \* per key: the value of the last put that succeeded on it (Option)
    kvGot          \* the last get on it: its key, whether it failed, what it returned (Option)

\* The state of the Scraper and of its run.
svars == <<targets, budget, pc, runs, task, resp, origSender, chan,
           result, cache, cache0, log, hist>>

\* The state of the Metrics handle and of its writer thread.
mvars == <<log_writer, writer_thread, mpc, queue, buffer, file, flushes,
           submitted, sinkFaults>>

\* The record of the calls on a Db that is used on its own.
dvars == <<kvOps, kvLast, kvGot>>

vars == <<svars, mvars, dvars>>

-----------------------------------------------------------------------------
\* Bounds of the model.

\* scrape() is called at most MaxRuns times on a Scraper of one target (or
\* none).
MaxRuns == 3

\* At most MaxFaults cache operations fail, or kills of the process happen,
\* in one behaviour.
MaxFaults == 1

\* At most MaxSinkFaults appends to the metrics file fail in one behaviour.
MaxSinkFaults == 1

\* increment_num_requests is called at most MaxEvents times on a Metrics
\* that is used on its own.
MaxEvents == 3

\* At most MaxDbOps calls are made on a Db that is used on its own.
MaxDbOps == 4

\* How many completed runs hist remembers.
HistLen == 2

-----------------------------------------------------------------------------
\* Characters and strings.

LF == "\n"
CR == "\r"

None == <<>>
Some(x) == <<x>>

\* str::contains(needle): literal, case-sensitive substring test.
Contains(x, needle) ==
    \E k \in 0..(Len(x) - Len(needle)) : SubSeq(x, k + 1, k + Len(needle)) = needle

\* Index of the first LF of s, 0 when there is none.
FirstLF(s) ==
    IF \E k \in 1..Len(s) : s[k] = LF
    THEN CHOOSE k \in 1..Len(s) : s[k] = LF /\ \A j \in 1..(k - 1) : s[j] # LF
    ELSE 0

\* One line of str::lines with its "\n" already removed: a "\r" right before
\* the "\n" is removed too.
StripCR(l) ==
    IF Len(l) > 0 /\ l[Len(l)] = CR THEN SubSeq(l, 1, Len(l) - 1) ELSE l

\* str::lines(): split at "\n" (or "\r\n"); a final line without a line
\* ending is a line when it is not empty, and keeps a bare trailing "\r".
RECURSIVE Lines(_)
Lines(s) ==
    IF s = <<>> THEN <<>>
    ELSE LET k == FirstLF(s) IN
         IF k = 0 THEN <<s>>
         ELSE <<StripCR(SubSeq(s, 1, k - 1))>> \o Lines(SubSeq(s, k + 1, Len(s)))

Range(s) == {s[k] : k \in 1..Len(s)}

\* writeln!(cache_value, "{}", x) for each x of xs, onto buf.
RECURSIVE WriteLines(_, _)
WriteLines(buf, xs) ==
    IF xs = <<>> THEN buf
    ELSE WriteLines(buf \o Head(xs) \o <<LF>>, Tail(xs))

\* itertools unique(): the first occurrence of each element, in order.
RECURSIVE UniqueFrom(_, _)
UniqueFrom(seen, xs) ==
    IF xs = <<>> THEN <<>>
    ELSE IF Head(xs) \in seen THEN UniqueFrom(seen, Tail(xs))
    ELSE <<Head(xs)>> \o UniqueFrom(seen \cup {Head(xs)}, Tail(xs))

Unique_AdjacentOnly(xs) ==
    LET keep == {k \in 1..Len(xs) : k = 1 \/ xs[k - 1] # xs[k]}
        RECURSIVE From(_)
        From(k) == IF k > Len(xs) THEN <<>>
                   ELSE IF k \in keep THEN <<xs[k]>> \o From(k + 1)
                   ELSE From(k + 1)
    IN  From(1)

Unique_NoDedup(xs) == xs

Unique(xs) == UniqueFrom({}, xs)

-----------------------------------------------------------------------------
\* Targets, documents and what a request can meet.

Target(u, t) == [uri |-> u, text |-> t]

TgtM == Target(<<"u">>, <<"m">>)
TgtC == Target(<<"u">>, <<"c">>)

\* Two targets with a colon at the end of the uri of one and at the start of
\* the text of the other.
TgtColonUri  == Target(<<"u", ":">>, <<"m">>)
TgtColonText == Target(<<"u">>, <<":", "m">>)

\* The target lists a Scraper is constructed with: none, one target, two
\* rules on one page, the same target twice, the two targets with colons.
TargetLists ==
    { <<>>, <<TgtM>>, <<TgtM, TgtC>>, <<TgtM, TgtM>>, <<TgtColonUri, TgtColonText>> }

\* Text nodes.
NodeA  == <<"m">>
NodeB  == <<"m", "c">>
NodeML == <<"m", LF, "m">>
NodeO  == <<"c">>

\* Documents: the text nodes of the body, each in an element of its own.
PgNone == <<>>
PgO    == <<NodeO>>
PgA    == <<NodeA, NodeO>>
PgAB   == <<NodeA, NodeO, NodeB>>
PgML   == <<NodeML>>

Http(st, doc) == [kind |-> "http", status |-> Some(st), body |-> doc]

\* reqwest's Error for a request that got no response (connection failure,
\* timeout) or whose body could not be read: Error::status() is None.
NoResponse == [kind |-> "error", status |-> None, body |-> PgNone]

\* What reqwest::blocking::get(uri) followed by text() can meet.
Responses ==
    { Http(200, d) : d \in {PgO, PgA, PgAB, PgML} }
        \cup { Http(404, PgO), NoResponse }

Is2xx(r) == r.kind = "http" /\ r.status[1] \in 200..299

\* ThreadMessage
MsgOk(i, body) == [i |-> i, kind |-> "Ok", body |-> body, status |-> "OK"]
MsgErr(i, st)  == [i |-> i, kind |-> "Err", body |-> PgNone, status |-> st]

\* e.status().map_or("unknown".to_string(), |s| s.to_string())
ErrStatus(r) ==
    IF r.status = None THEN "unknown" ELSE ToString(r.status[1])

\* The match of the fetch thread: reqwest::blocking::get returns Ok for every
\* response it receives, whatever its status code (nothing calls
\* error_for_status), and text() then yields the body; Err comes from a
\* request that got no response or a body that could not be read.
FetchOutcome(i, r) ==
    IF r.kind = "http" THEN MsgOk(i, r.body) ELSE MsgErr(i, ErrStatus(r))

\* Scraper::target_id
target_id_UriOnly(t) == t.uri

target_id(t) == t.uri \o <<":">> \o t.text

\* page.select("*").flat_map(|x| x.text()): every element yields the text
\* nodes below it: <html> and <body> yield all of them, then each element of
\* the body its own.
Content(page) == page \o page \o page

\* The elements of content that contain target.text.
Matching(content, text) == SelectSeq(content, LAMBDA x : Contains(x, text))

\* The elements of a finite set, in some order.
RECURSIVE SeqOf(_)
SeqOf(S) ==
    IF S = {} THEN <<>>
    ELSE LET x == CHOOSE y \in S : TRUE IN <<x>> \o SeqOf(S \ {x})

\* .filter(|x| !old_matches.contains(x))
NewMatches_AlsoRemoved(matches, old_matches) ==
    SelectSeq(matches, LAMBDA x : x \notin old_matches)
        \o SeqOf(old_matches \ Range(matches))

NewMatches(matches, old_matches) ==
    SelectSeq(matches, LAMBDA x : x \notin old_matches)

-----------------------------------------------------------------------------
\* Db (src/src/db.rs): the table kv (key text unique, value text).

\* Db::get: None when the statement cannot be prepared or run, or when no
\* row has the key.
DbGet(db, key, fails) == IF fails THEN None ELSE db[key]

\* Db::put: REPLACE INTO kv; an Err leaves the table as it was.
DbPut_Append(db, key, value, fails) ==
    IF fails THEN [ok |-> FALSE, db |-> db]
    ELSE [ok |-> TRUE,
          db |-> [db EXCEPT ![key] = IF @ = None THEN Some(value) ELSE Some(@[1] \o value)]]

DbPut_EveryRow(db, key, value, fails) ==
    IF fails THEN [ok |-> FALSE, db |-> db]
    ELSE [ok |-> TRUE, db |-> [k \in DOMAIN db |-> Some(value)]]

DbPut(db, key, value, fails) ==
    IF fails THEN [ok |-> FALSE, db |-> db]
    ELSE [ok |-> TRUE, db |-> [db EXCEPT ![key] = Some(value)]]

-----------------------------------------------------------------------------
\* What the aggregation loop does, as records of log.

EvGet(i, key, got)       == [op |-> "get", i |-> i, key |-> key, got |-> got]
EvSend(i, x)             == [op |-> "send", i |-> i, frag |-> x]
EvPut(i, key, value, ok) == [op |-> "put", i |-> i, key |-> key, value |-> value, ok |-> ok]
EvMetric(i, uri, status) == [op |-> "metric", i |-> i, uri |-> uri, status |-> status]

\* let mut cache_value = String::new();
InitialCacheValue_Merge(old_contents) == old_contents

InitialCacheValue(old_contents) == <<>>

\* What handle_page_content returns after a put that failed or succeeded:
\* the Err of put is logged and dropped.
PutOutcome_Propagate(ok) == IF ok THEN "Ok" ELSE "Err"

PutOutcome(ok) == "Ok"

\* Scraper::handle_page_content(page, target) on the table db; getFails and
\* putFails say whether the storage fails the read and the write.
HandlePageContent_GetIsFatal(page, target, i, db, getFails, putFails) ==
    LET cache_id     == target_id(target)
        got          == DbGet(db, cache_id, getFails)
        old_matches  == Range(Lines(IF got = None THEN <<>> ELSE got[1]))
        matches      == Unique(Matching(Content(page), target.text))
        cache_value  == WriteLines(InitialCacheValue(<<>>), matches)
        new          == NewMatches(matches, old_matches)
        put          == DbPut(db, cache_id, cache_value, putFails)
    IN  IF got = None
        THEN [ cache |-> db, events |-> <<EvGet(i, cache_id, got)>>, result |-> "Err" ]
        ELSE [ cache  |-> put.db,
               events |-> <<EvGet(i, cache_id, got)>>
                            \o [k \in 1..Len(new) |-> EvSend(i, new[k])]
                            \o <<EvPut(i, cache_id, cache_value, put.ok)>>,
               result |-> PutOutcome(put.ok) ]

HandlePageContent_PutFirst(page, target, i, db, getFails, putFails) ==
    LET cache_id     == target_id(target)
        got          == DbGet(db, cache_id, getFails)
        old_contents == IF got = None THEN <<>> ELSE got[1]
        old_matches  == Range(Lines(old_contents))
        matches      == Unique(Matching(Content(page), target.text))
        cache_value  == WriteLines(InitialCacheValue(old_contents), matches)
        new          == NewMatches(matches, old_matches)
        put          == DbPut(db, cache_id, cache_value, putFails)
    IN  [ cache  |-> put.db,
          events |-> <<EvGet(i, cache_id, got)>>
                       \o <<EvPut(i, cache_id, cache_value, put.ok)>>
                       \o [k \in 1..Len(new) |-> EvSend(i, new[k])],
          result |-> PutOutcome(put.ok) ]

HandlePageContent(page, target, i, db, getFails, putFails) ==
    LET cache_id     == target_id(target)
        got          == DbGet(db, cache_id, getFails)
        old_contents == IF got = None THEN <<>> ELSE got[1]
        old_matches  == Range(Lines(old_contents))
        matches      == Unique(Matching(Content(page), target.text))
        cache_value  == WriteLines(InitialCacheValue(old_contents), matches)
        new          == NewMatches(matches, old_matches)
        put          == DbPut(db, cache_id, cache_value, putFails)
    IN  [ cache  |-> put.db,
          events |-> <<EvGet(i, cache_id, got)>>
                       \o [k \in 1..Len(new) |-> EvSend(i, new[k])]
                       \o <<EvPut(i, cache_id, cache_value, put.ok)>>,
          result |-> PutOutcome(put.ok) ]

-----------------------------------------------------------------------------
\* Metrics (src/src/myscraper.rs): a handle with the Sender of a channel of
\* Strings, and a writer thread that buffers what it receives and appends
\* the buffer to scraper-metrics.csv.

\* if buffer.len() > 256
FlushThreshold == 256

\* The seconds since the Unix epoch, formatted with {:?}: ten digits.
Now == <<"1", "7", "0", "0", "0", "0", "0", "0", "0", "0">>

\* The characters of the status strings.
Chars(s) ==
    CASE s = "OK"      -> <<"O", "K">>
      [] s = "unknown" -> <<"u", "n", "k", "n", "o", "w", "n">>
      [] s = "404"     -> <<"4", "0", "4">>

\* format!("{:?},inc_req,{},{}", now, target, status)
FormatEntry(now, target, status) ==
    now \o <<",", "i", "n", "c", "_", "r", "e", "q", ",">> \o target \o <<",">> \o status

\* The target strings increment_num_requests is called with: the uri of the
\* model's targets, a uri of 105 characters (two of its "OK" entries fill 256
\* bytes exactly), and one of 250 (one entry is over 256 bytes).
Uri(n) == [k \in 1..n |-> "x"]
MetricTargets == {<<"u">>, Uri(105), Uri(250)}

\* What opening and writing the file can do to one write_buffer call.
SinkOutcomes == {"ok", "open_err", "write_err"}

\* The bytes that reach the file in a write_buffer call of outcome o: all of
\* them, none when the file cannot be opened, and a proper prefix when
\* write_all fails (here: nothing, or the first half).
Written(buf, o) ==
    CASE o = "ok"        -> {buf}
      [] o = "open_err"  -> {<<>>}
      [] o = "write_err" -> {SubSeq(buf, 1, k) : k \in {0, Len(buf) \div 2}}

\* let write_buffer = |buffer| { ...; buffer.clear() }: the buffer is handed
\* to the append and cleared, whatever the append did.
WriteBuffer_NoClear(buf) ==
    \E o \in SinkOutcomes :
        /\ (o # "ok") => sinkFaults > 0
        /\ sinkFaults' = IF o = "ok" THEN sinkFaults ELSE sinkFaults - 1
        /\ \E w \in Written(buf, o) : file' = file \o w
        /\ flushes' = Append(flushes, [data |-> buf, outcome |-> o])
        /\ buffer' = buf

WriteBuffer(buf) ==
    \E o \in SinkOutcomes :
        /\ (o # "ok") => sinkFaults > 0
        /\ sinkFaults' = IF o = "ok" THEN sinkFaults ELSE sinkFaults - 1
        /\ \E w \in Written(buf, o) : file' = file \o w
        /\ flushes' = Append(flushes, [data |-> buf, outcome |-> o])
        /\ buffer' = <<>>

\* Metrics::increment_num_requests(target, status): the entry is sent on the
\* channel; send fails, and the failure is logged, when the receiver is gone.
IncrementNumRequests_Twice(target, status) ==
    LET entry == FormatEntry(Now, target, status) IN
    /\ submitted' = submitted \o <<entry, entry>>
    /\ queue' = IF writer_thread = "finished" THEN queue ELSE queue \o <<entry, entry>>
    /\ UNCHANGED <<log_writer, writer_thread, mpc, buffer, file, flushes, sinkFaults>>

IncrementNumRequests(target, status) ==
    LET entry == FormatEntry(Now, target, status) IN
    /\ submitted' = Append(submitted, entry)
    /\ queue' = IF writer_thread = "finished" THEN queue ELSE Append(queue, entry)
    /\ UNCHANGED <<log_writer, writer_thread, mpc, buffer, file, flushes, sinkFaults>>

\* One iteration of `for entry in receiver` of the writer thread.
WriterEntry_StopsOnFailure ==
    /\ writer_thread = "running"
    /\ queue # <<>>
    /\ queue' = Tail(queue)
    /\ LET b == buffer \o Head(queue) \o <<LF>> IN
       IF Len(b) > FlushThreshold
       THEN WriteBuffer(b)
       ELSE buffer' = b /\ UNCHANGED <<file, flushes, sinkFaults>>
    /\ writer_thread' = IF sinkFaults' < sinkFaults THEN "finished" ELSE writer_thread
    /\ UNCHANGED <<log_writer, mpc, submitted>>
    /\ UNCHANGED <<svars, dvars>>

WriterEntry ==
    /\ writer_thread = "running"
    /\ queue # <<>>
    /\ queue' = Tail(queue)
    /\ LET b == buffer \o Head(queue) \o <<LF>> IN
       IF Len(b) > FlushThreshold
       THEN WriteBuffer(b)
       ELSE buffer' = b /\ UNCHANGED <<file, flushes, sinkFaults>>
    /\ UNCHANGED <<log_writer, writer_thread, mpc, submitted>>
    /\ UNCHANGED <<svars, dvars>>

\* The loop of the writer thread ends, when the channel is empty and its
\* Sender dropped: what is left in the buffer is written, and the thread
\* finishes.
WriterEnd ==
    /\ writer_thread = "running"
    /\ queue = <<>>
    /\ log_writer = "None"
    /\ IF Len(buffer) > 0
       THEN WriteBuffer(buffer)
       ELSE UNCHANGED <<buffer, file, flushes, sinkFaults>>
    /\ writer_thread' = "finished"
    /\ UNCHANGED <<log_writer, mpc, queue, submitted>>
    /\ UNCHANGED <<svars, dvars>>

\* Drop for Metrics, first statement: drop(self.log_writer.take()).
DropLogWriter ==
    /\ mpc = "alive"
    /\ pc = "idle"
    /\ log_writer' = "None"
    /\ mpc' = "joining"
    /\ UNCHANGED <<writer_thread, queue, buffer, file, flushes, submitted, sinkFaults>>
    /\ UNCHANGED <<svars, dvars>>

\* What JoinHandle::join waits for.
JoinReturns_NoWait == TRUE

JoinReturns == writer_thread = "finished"

\* Drop for Metrics, second statement: self.writer_thread.take().map(join);
\* drop returns after it.
JoinWriter ==
    /\ mpc = "joining"
    /\ JoinReturns
    /\ mpc' = "dropped"
    /\ UNCHANGED <<log_writer, writer_thread, queue, buffer, file, flushes,
                   submitted, sinkFaults>>
    /\ UNCHANGED <<svars, dvars>>

-----------------------------------------------------------------------------
\* The state machine.

N == Len(targets)

\* How many times the caller calls scrape(): once on a Scraper of several
\* targets, as main does (Scraper::new, then one scrape(), on the table the
\* file holds); up to MaxRuns times on a Scraper of one target, as the
\* tests do.
Calls(ts) == IF Len(ts) <= 1 THEN MaxRuns ELSE 1

\* The values an earlier process can have left in the table under key k:
\* Scraper::new opens the file ./.scraper_target_cache.db, which outlives the
\* process, and every value in it was written by handle_page_content for a
\* target of that key.
Persisted(ts, k) ==
    {None} \cup
    { Some(WriteLines(<<>>, Unique(Matching(Content(r.body), ts[i].text)))) :
        r \in {q \in Responses : q.kind = "http"},
        i \in {j \in 1..Len(ts) : target_id(ts[j]) = k} }
Keys(ts) == {target_id(ts[i]) : i \in 1..Len(ts)}

SendsOf(l, i)   == SelectSeq(l[i], LAMBDA e : e.op = "send")
PutsOf(l, i)    == SelectSeq(l[i], LAMBDA e : e.op = "put")
GetsOf(l, i)    == SelectSeq(l[i], LAMBDA e : e.op = "get")
MetricsOf(l, i) == SelectSeq(l[i], LAMBDA e : e.op = "metric")

\* What hist keeps of a run, per target: what the request met, the fragments
\* notified, and whether the cache write succeeded.
Summary ==
    [i \in 1..N |->
        [ resp  |-> resp[i],
          sent  |-> {e.frag : e \in Range(SendsOf(log, i))},
          putOk |-> \E e \in Range(PutsOf(log, i)) : e.ok ]]

Take(s, n) == SubSeq(s, 1, IF Len(s) < n THEN Len(s) ELSE n)

\* Metrics::new: the channel, the handle with its Sender, the writer thread
\* started with an empty buffer.
MetricsNew(sink) ==
    /\ log_writer = "Some"
    /\ writer_thread = "running"
    /\ mpc = "alive"
    /\ queue = <<>>
    /\ buffer = <<>>
    /\ file = <<>>
    /\ flushes = <<>>
    /\ submitted = <<>>
    /\ sinkFaults = sink

\* The targets, and no run of scrape() yet.
NoRun(lists, faults) ==
    /\ targets \in lists
    /\ budget = faults
    /\ pc = "idle"
    /\ runs = 0
    /\ task = [i \in 1..Len(targets) |-> "none"]
    /\ resp = [i \in 1..Len(targets) |-> None]
    /\ origSender = FALSE
    /\ chan = <<>>
    /\ result = "none"
    /\ log = [i \in 1..Len(targets) |-> <<>>]
    /\ hist = <<>>

\* Scraper::new: the targets, the table as the file holds it, the Metrics,
\* no run yet.
InitWith(lists, faults, sink) ==
    /\ NoRun(lists, faults)
    /\ cache \in [Keys(targets) -> UNION {Persisted(targets, k) : k \in Keys(targets)}]
    /\ \A k \in Keys(targets) : cache[k] \in Persisted(targets, k)
    /\ cache0 = cache
    /\ MetricsNew(sink)
    /\ kvOps = 0
    /\ kvLast = [k \in Keys(targets) |-> None]
    /\ kvGot = None

Init == InitWith(TargetLists, MaxFaults, MaxSinkFaults)

\* One target and a storage that never fails.
InitSolo == InitWith({<<TgtM>>}, 0, 0)

\* A table that starts empty, as Db::new_in_memory gives the tests, and a
\* storage that never fails.
InitLive == InitWith(TargetLists, 0, 0) /\ \A k \in Keys(targets) : cache[k] = None

\* drop(sender): scrape()'s own Sender is gone before the receive loop.
AfterDropSender_Kept == TRUE

AfterDropSender == FALSE

\* scrape() up to the receive loop: the channel, one scoped thread per
\* target with a clone of the Sender, drop(sender).
StartScrape ==
    /\ pc = "idle"
    /\ mpc = "alive"
    /\ runs < Calls(targets)
    /\ runs' = runs + 1
    /\ hist' = IF runs = 0 THEN hist ELSE Take(<<Summary>> \o hist, HistLen)
    /\ task' = [i \in 1..N |-> "fetching"]
    /\ resp' = [i \in 1..N |-> None]
    /\ origSender' = AfterDropSender
    /\ chan' = <<>>
    /\ log' = [i \in 1..N |-> <<>>]
    /\ cache0' = cache
    /\ pc' = "recv"
    /\ UNCHANGED <<dvars, targets, budget, result, cache>>
    /\ UNCHANGED mvars

\* The closure of the fetch thread of target i: the request ends, its outcome
\* is sent, and the closure returns, which drops its clone of the Sender.
TaskFetch_HandlesPage(i) ==
    /\ task[i] = "fetching"
    /\ \E r \in Responses :
          /\ resp' = [resp EXCEPT ![i] = Some(r)]
          /\ chan' = Append(chan, FetchOutcome(i, r))
          /\ LET h == HandlePageContent(r.body, targets[i], i, cache, FALSE, FALSE)
             IN  /\ cache' = h.cache
                 /\ log' = [log EXCEPT ![i] = @ \o h.events]
    /\ task' = [task EXCEPT ![i] = "dropped"]
    /\ UNCHANGED <<dvars, targets, budget, pc, runs, origSender, result, cache0, hist>>
    /\ UNCHANGED mvars

TaskFetch(i) ==
    /\ task[i] = "fetching"
    /\ \E r \in Responses :
          /\ resp' = [resp EXCEPT ![i] = Some(r)]
          /\ chan' = Append(chan, FetchOutcome(i, r))
    /\ task' = [task EXCEPT ![i] = "dropped"]
    /\ UNCHANGED <<dvars, targets, budget, pc, runs, origSender, result,
                   cache, cache0, log, hist>>
    /\ UNCHANGED mvars

\* Thread i has finished.
TaskExit(i) ==
    /\ task[i] = "dropped"
    /\ task' = [task EXCEPT ![i] = "done"]
    /\ UNCHANGED <<dvars, targets, budget, pc, runs, resp, origSender, chan,
                   result, cache, cache0, log, hist>>
    /\ UNCHANGED mvars

Cost(b) == IF b THEN 1 ELSE 0

\* One iteration of `for (t, resp) in receiver`.
Receive ==
    /\ pc = "recv"
    /\ chan # <<>>
    /\ LET m == Head(chan)
           t == targets[m.i]
       IN  IF m.kind = "Ok"
           THEN \E getFails \in BOOLEAN, putFails \in BOOLEAN :
                  /\ Cost(getFails) + Cost(putFails) <= budget
                  /\ budget' = budget - (Cost(getFails) + Cost(putFails))
                  /\ LET h == HandlePageContent(m.body, t, m.i, cache, getFails, putFails)
                     IN  /\ cache' = h.cache
                         /\ IF h.result = "Ok"
                            THEN /\ log' = [log EXCEPT ![m.i] =
                                              @ \o h.events \o <<EvMetric(m.i, t.uri, "OK")>>]
                                 /\ IncrementNumRequests(t.uri, Chars("OK"))
                                 /\ pc' = pc
                                 /\ result' = result
                            ELSE /\ log' = [log EXCEPT ![m.i] = @ \o h.events]
                                 /\ pc' = "scope_end"
                                 /\ result' = "Err"
                                 /\ UNCHANGED mvars
           ELSE /\ log' = [log EXCEPT ![m.i] = Append(@, EvMetric(m.i, t.uri, m.status))]
                /\ IncrementNumRequests(t.uri, Chars(m.status))
                /\ UNCHANGED <<budget, cache, pc, result>>
    /\ chan' = Tail(chan)
    /\ UNCHANGED <<dvars, targets, runs, task, resp, origSender, cache0, hist>>

\* The receive loop ends: the channel is empty and every Sender is dropped.
ReceiveEnd ==
    /\ pc = "recv"
    /\ chan = <<>>
    /\ ~origSender
    /\ \A i \in 1..N : task[i] \in {"dropped", "done"}
    /\ pc' = "join"
    /\ UNCHANGED <<dvars, targets, budget, runs, task, resp, origSender, chan,
                   result, cache, cache0, log, hist>>
    /\ UNCHANGED mvars

\* What join() and the end of thread::scope wait for.
Finished_SenderDropped(i) == task[i] \in {"dropped", "done"}

Finished(i) == task[i] = "done"

\* for handle in handles { handle.join().unwrap(); } and the closure of
\* thread::scope returns Ok(()).
JoinAll ==
    /\ pc = "join"
    /\ \A i \in 1..N : Finished(i)
    /\ pc' = "scope_end"
    /\ result' = "Ok"
    /\ UNCHANGED <<dvars, targets, budget, runs, task, resp, origSender, chan,
                   cache, cache0, log, hist>>
    /\ UNCHANGED mvars

\* thread::scope returns once every thread spawned in it has finished, and
\* scrape() returns what the closure returned.
ScopeEnd ==
    /\ pc = "scope_end"
    /\ \A i \in 1..N : Finished(i)
    /\ pc' = "idle"
    /\ UNCHANGED <<dvars, targets, budget, runs, task, resp, origSender, chan,
                   result, cache, cache0, log, hist>>
    /\ UNCHANGED mvars

Task(i) == i \in 1..N /\ (TaskFetch(i) \/ TaskExit(i))

Orchestrator == StartScrape \/ Receive \/ ReceiveEnd \/ JoinAll \/ ScopeEnd

\* The steps of scrape() and of its fetch threads.
Next == Orchestrator \/ \E i \in 1..N : Task(i)

\* The writer thread of the Metrics.
Writer == WriterEntry \/ WriterEnd

\* The owner of the Metrics lets it go out of scope (with the Scraper, when
\* it is the Scraper's).
DropMetrics == DropLogWriter \/ JoinWriter

\* The steps of the whole program: scrape() and its fetch threads, the writer
\* thread of the Scraper's Metrics, and the drop of the Scraper.
NextAll == Next \/ Writer \/ DropMetrics

Spec == Init /\ [][Next]_vars

SpecSolo == InitSolo /\ [][Next]_vars

\* The Scrapers of two targets.
InitPairs == InitWith({ts \in TargetLists : Len(ts) = 2}, MaxFaults, MaxSinkFaults)

SpecPairs == InitPairs /\ [][Next]_vars

\* A caller of the Metrics handle submits an event.
Increment ==
    /\ mpc = "alive"
    /\ Len(submitted) < MaxEvents
    /\ \E target \in MetricTargets, status \in {Chars("OK"), Chars("unknown")} :
          IncrementNumRequests(target, status)
    /\ UNCHANGED <<svars, dvars>>

\* The Scraper with its Metrics, on a storage that does not fail and a
\* metrics file that can.
InitAll == InitWith(TargetLists, 0, MaxSinkFaults)

SpecAll == InitAll /\ [][NextAll]_vars

\* A Metrics on its own: any caller, any targets.
InitMetrics == InitWith({<<>>}, 0, MaxSinkFaults)

NextMetrics == Increment \/ Writer \/ DropMetrics

SpecMetrics == InitMetrics /\ [][NextMetrics]_vars

\* A target whose uri has 250 characters: its metrics entry has 273 bytes,
\* over the threshold on its own.
TgtLong == Target(Uri(250), <<"m">>)

\* A Scraper of that target and another with its Metrics, on a table that
\* starts empty in a storage that does not fail, and a metrics file that can.
InitSink ==
    /\ InitWith({<<TgtLong, TgtM>>}, 0, MaxSinkFaults)
    /\ \A k \in Keys(targets) : cache[k] = None

\* The keys and values of the calls on a Db that is used on its own.
DbKeys == {<<"a">>, <<"b">>}
DbValues == {<<"b">>, <<"q">>}

\* Db::new_in_memory: the table kv, empty.
InitDb ==
    /\ NoRun({<<>>}, MaxFaults)
    /\ cache = [k \in DbKeys |-> None]
    /\ cache0 = cache
    /\ MetricsNew(0)
    /\ kvOps = 0
    /\ kvLast = [k \in DbKeys |-> None]
    /\ kvGot = None

\* A call of Db::put.
PutCall ==
    /\ kvOps < MaxDbOps
    /\ \E k \in DbKeys, v \in DbValues, fails \in BOOLEAN :
          /\ Cost(fails) <= budget
          /\ budget' = budget - Cost(fails)
          /\ LET put == DbPut(cache, k, v, fails)
             IN  /\ cache' = put.db
                 /\ kvLast' = IF put.ok THEN [kvLast EXCEPT ![k] = Some(v)] ELSE kvLast
    /\ kvOps' = kvOps + 1
    /\ UNCHANGED <<targets, pc, runs, task, resp, origSender, chan, result,
                   cache0, log, hist, kvGot>>
    /\ UNCHANGED mvars

\* A call of Db::get.
GetCall ==
    /\ kvOps < MaxDbOps
    /\ \E k \in DbKeys, fails \in BOOLEAN :
          /\ Cost(fails) <= budget
          /\ budget' = budget - Cost(fails)
          /\ kvGot' = Some([key |-> k, failed |-> fails, value |-> DbGet(cache, k, fails),
                            last |-> kvLast[k]])
    /\ kvOps' = kvOps + 1
    /\ UNCHANGED <<targets, pc, runs, task, resp, origSender, chan, result,
                   cache, cache0, log, hist, kvLast>>
    /\ UNCHANGED mvars

NextDb == PutCall \/ GetCall

SpecDb == InitDb /\ [][NextDb]_vars

\* A step of a run in progress: of scrape() past its start, or of a fetch
\* thread.
RunStep == Receive \/ ReceiveEnd \/ JoinAll \/ ScopeEnd \/ \E i \in 1..N : Task(i)

\* While some thread of a run can take a step, one of them eventually does:
\* the fetch threads are OS threads (each request ends, with a response or
\* an error), and scrape() runs on its caller's thread.  Nothing obliges the
\* caller to call scrape() again.
Fairness == WF_vars(RunStep)

FairSpec == InitLive /\ [][Next]_vars /\ Fairness

\* The process is killed while handle_page_content runs for the message at
\* the head of the channel: after the k-th of its steps (the lookup, the
\* sends, the put) and before the next.  What a step wrote to the table
\* stays in the file; the threads, the channel and the result of the run go
\* with the process.
Kill ==
    /\ pc = "recv"
    /\ chan # <<>>
    /\ Head(chan).kind = "Ok"
    /\ budget > 0
    /\ budget' = budget - 1
    /\ LET m == Head(chan)
           h == HandlePageContent(m.body, targets[m.i], m.i, cache, FALSE, FALSE)
       IN  \E k \in 1..(Len(h.events) - 1) :
              /\ log' = [log EXCEPT ![m.i] = @ \o SubSeq(h.events, 1, k)]
              /\ cache' = IF \E j \in 1..k : h.events[j].op = "put"
                          THEN h.cache ELSE cache
    /\ pc' = "killed"
    /\ chan' = <<>>
    /\ task' = [i \in 1..N |-> "done"]
    /\ origSender' = FALSE
    /\ result' = "none"
    /\ UNCHANGED <<dvars, targets, runs, resp, cache0, hist>>
    /\ UNCHANGED mvars

\* The program is started again on the same files: Scraper::new, with a new
\* Metrics.
Restart ==
    /\ pc = "killed"
    /\ pc' = "idle"
    /\ task' = [i \in 1..N |-> "none"]
    /\ log_writer' = "Some"
    /\ writer_thread' = "running"
    /\ mpc' = "alive"
    /\ queue' = <<>>
    /\ buffer' = <<>>
    /\ UNCHANGED <<file, flushes, submitted, sinkFaults>>
    /\ UNCHANGED <<dvars, targets, budget, runs, resp, origSender, chan, result,
                   cache, cache0, log, hist>>

\* A Scraper of one target whose process can be killed, and its storage
\* fail.
InitKill == InitWith({<<TgtM>>}, MaxFaults, 0)

NextKill == Next \/ Kill \/ Restart

SpecKill == InitKill /\ [][NextKill]_vars

\* The scheduler does not stop the whole program: while a run in progress,
\* the writer thread or the join of the drop can take a step, one of them
\* eventually does.  Nothing obliges the owner to call scrape() or to drop
\* the Scraper.
FairnessAll == WF_vars(RunStep \/ Writer \/ JoinWriter)

SpecSink == InitSink /\ [][NextAll]_vars /\ FairnessAll

-----------------------------------------------------------------------------
\* Vocabulary of the properties.

\* The distinct text nodes of a document that contain text.
FragmentsOf(doc, text) == {x \in Range(doc) : Contains(x, text)}

\* The elements of xs at their first occurrence, in order.
FirstOccurrences(xs) ==
    LET keep == {k \in 1..Len(xs) : \A j \in 1..(k - 1) : xs[j] # xs[k]}
        RECURSIVE From(_)
        From(k) == IF k > Len(xs) THEN <<>>
                   ELSE IF k \in keep THEN <<xs[k]>> \o From(k + 1)
                   ELSE From(k + 1)
    IN  From(1)

\* Target i's request of the current run got a 2xx response.
Fetched(i) == resp[i] # None /\ Is2xx(resp[i][1])

\* Target i's request of the current run failed: no response, or a response
\* that is not 2xx.
FetchFailed(i) == resp[i] # None /\ ~Is2xx(resp[i][1])

\* The aggregation loop has handled target i's message of the current run.
Handled(i) == log[i] # <<>>

\* The fragments target i was notified of in the current run.
SentNow(i) == {e.frag : e \in Range(SendsOf(log, i))}

\* The fragment set of the cache entry as target i's lookup of the current
\* run returned it: the lines of the value, none when the key is absent or
\* the lookup failed.
OldSet(i) ==
    LET g == GetsOf(log, i)[1].got IN
    IF g = None THEN {} ELSE Range(Lines(g[1]))

\* The fragment set of the content target i fetched in the current run.
CurSet(i) == FragmentsOf(resp[i][1].body, targets[i].text)

Count(xs, x) == Cardinality({k \in 1..Len(xs) : xs[k] = x})

Returned == pc = "idle" /\ runs > 0

-----------------------------------------------------------------------------
\* C1  Two consecutive runs in which a target's fetch succeeds with the same
\* body: the second run sends no notification for that target.
C1_UnchangedContentNotifiesNothing ==
    \A i \in 1..N :
        (/\ hist # <<>>
         /\ Fetched(i)
         /\ hist[1][i].resp = resp[i]
         /\ Handled(i))
        => SendsOf(log, i) = <<>>

\* C2  Processing a fetched target sends exactly one notification for every
\* fragment of the fresh set that is not in the cache entry's previous set,
\* and none for any other fragment.
C2_OneNotificationPerNewFragment ==
    \A i \in 1..N :
        (Handled(i) /\ GetsOf(log, i) # <<>>) =>
            \A f \in CurSet(i) \cup OldSet(i) \cup SentNow(i) :
                Count(SendsOf(log, i), EvSend(i, f)) =
                    IF f \in CurSet(i) /\ f \notin OldSet(i) THEN 1 ELSE 0

\* Previous set {A}, fresh set {A, B}: one notification, for B.
C2_Witness ==
    \E i \in 1..N :
        /\ Handled(i) /\ Fetched(i)
        /\ OldSet(i) = {NodeA}
        /\ CurSet(i) = {NodeA, NodeB}
        /\ SendsOf(log, i) = <<EvSend(i, NodeB)>>

\* C3  A response that is not 2xx is a failed fetch: the thread's message is
\* Err with the status code as its status, and the target's metrics event
\* of the run has a status other than "OK".
C3_Non2xxIsFailedFetch ==
    \A i \in 1..N :
        (resp[i] # None /\ resp[i][1].kind = "http" /\ ~Is2xx(resp[i][1])) =>
            /\ \A k \in 1..Len(chan) :
                  chan[k].i = i =>
                      chan[k].kind = "Err" /\ chan[k].status = ToString(resp[i][1].status[1])
            /\ \A e \in Range(MetricsOf(log, i)) : e.status # "OK"

\* C4  A target whose fetch fails in a run: the run leaves its cache entry
\* as it was before the run and sends no notification for it.
C4_FailedFetchLeavesCacheAlone ==
    \A i \in 1..N :
        (Returned /\ FetchFailed(i)) =>
            /\ cache[target_id(targets[i])] = cache0[target_id(targets[i])]
            /\ SendsOf(log, i) = <<>>

\* Target i went through the whole of handle_page_content: the lookup, the
\* notifications, the write of the value of its content, then its metrics
\* event.
FullPipeline(i) ==
    /\ Len(log[i]) >= 3
    /\ log[i][1].op = "get"
    /\ \A k \in 2..(Len(log[i]) - 2) : log[i][k].op = "send"
    /\ log[i][Len(log[i]) - 1].op = "put"
    /\ log[i][Len(log[i])].op = "metric"
    /\ SentNow(i) = CurSet(i) \ OldSet(i)

\* Something failed for target i in the current run: its fetch, its cache
\* read or its cache write.
Failed(i) ==
    \/ FetchFailed(i)
    \/ \E e \in Range(PutsOf(log, i)) : ~e.ok
    \/ /\ GetsOf(log, i) # <<>>
       /\ GetsOf(log, i)[1].got = None
       /\ cache0[target_id(targets[i])] # None

\* C5  No failure of one target aborts a run: scrape() returns Ok, every
\* target has its one metrics event, and every target whose fetch succeeded
\* went through the whole pipeline.
C5_FailuresDoNotAbortTheRun ==
    Returned =>
        /\ result = "Ok"
        /\ \A i \in 1..N : Len(MetricsOf(log, i)) = 1
        /\ \A i \in 1..N : Fetched(i) => FullPipeline(i)

\* A run that returned, in which one target failed and the other did not.
C5_Witness ==
    /\ Returned /\ N = 2 /\ result = "Ok"
    /\ \E i, j \in 1..N :
          /\ i # j
          /\ Failed(i) /\ Len(MetricsOf(log, i)) = 1
          /\ Fetched(j) /\ ~Failed(j) /\ FullPipeline(j) /\ SentNow(j) # {}

\* C6  A fragment of the cache entry's previous set that is absent from the
\* fresh content is never notified, and when every fresh fragment is in the
\* previous set the target gets no notification at all.
C6_RemovedFragmentsAreSilent ==
    \A i \in 1..N :
        (Handled(i) /\ GetsOf(log, i) # <<>>) =>
            /\ \A f \in OldSet(i) \ CurSet(i) : f \notin SentNow(i)
            /\ CurSet(i) \subseteq OldSet(i) => SendsOf(log, i) = <<>>

\* Previous set {A, B}, fresh set {A}: no notification.
C6_Witness ==
    \E i \in 1..N :
        /\ Handled(i) /\ Fetched(i)
        /\ OldSet(i) = {NodeA, NodeB}
        /\ CurSet(i) = {NodeA}
        /\ SendsOf(log, i) = <<>>
        /\ \E e \in Range(PutsOf(log, i)) : e.ok

\* Each element of xs followed by a line break, in order.
RECURSIVE NewlineTerminated(_)
NewlineTerminated(xs) ==
    IF xs = <<>> THEN <<>>
    ELSE Head(xs) \o <<LF>> \o NewlineTerminated(Tail(xs))

\* C7  After a fetched target is processed and its put succeeded, its cache
\* entry is the distinct matching fragments of the run, newline-delimited in
\* order of first appearance, with nothing of the previous value; it is the
\* empty string when nothing matches.  (Of an entry two targets share, this
\* is said until the other target is processed.)
C7_EntryIsReplacedByCurrentFragments ==
    \A i \in 1..N :
        (/\ Fetched(i) /\ Handled(i)
         /\ \E e \in Range(PutsOf(log, i)) : e.ok
         /\ \A j \in 1..N :
               (j # i /\ Handled(j)) => target_id(targets[j]) # target_id(targets[i]))
        => LET entry == cache[target_id(targets[i])]
               frags == FirstOccurrences(
                            Matching(resp[i][1].body, targets[i].text))
           IN  /\ entry = Some(NewlineTerminated(frags))
               /\ CurSet(i) = {} => entry = Some(<<>>)

\* An entry that held A and B is replaced by the empty string when nothing
\* matches, and by A alone when only A matches.
C7_Witness ==
    \E i \in 1..N :
        /\ Fetched(i) /\ Handled(i)
        /\ \E e \in Range(PutsOf(log, i)) : e.ok
        /\ cache0[target_id(targets[i])] = Some(NewlineTerminated(<<NodeA, NodeB>>))
        /\ OldSet(i) = {NodeA, NodeB}
        /\ CurSet(i) = {}
        /\ cache[target_id(targets[i])] = Some(<<>>)

\* C8  A fragment notified in one run, absent from the content of the next
\* run and present again in the run after it (all three fetches succeed) is
\* notified again in that third run.
C8_ReappearingFragmentIsNotifiedAgain ==
    \A i \in 1..N :
        (/\ Len(hist) >= 2
         /\ Fetched(i) /\ Handled(i)
         /\ hist[1][i].resp # None /\ Is2xx(hist[1][i].resp[1])
         /\ hist[2][i].resp # None /\ Is2xx(hist[2][i].resp[1]))
        => \A f \in hist[2][i].sent :
              (/\ f \notin FragmentsOf(hist[1][i].resp[1].body, targets[i].text)
               /\ f \in CurSet(i))
              => f \in SentNow(i)

\* C9  When scrape() has returned, every fetch thread it spawned has
\* finished.
C9_NoTaskOutlivesItsRun ==
    pc = "idle" => \A i \in 1..N : task[i] \in {"none", "done"}

\* scrape() has returned from a run of two fetch threads.
C9_Witness ==
    /\ Returned /\ N = 2
    /\ \A i \in 1..N : task[i] = "done"

\* C10  A scrape() that has started eventually returns, for any number of
\* targets.
C10_ScrapeReturns == (pc # "idle") ~> (pc = "idle")

\* scrape() has returned Ok from a run whose channel is drained and closed;
\* with two targets, and with none.
C10_Witness ==
    /\ Returned /\ result = "Ok"
    /\ chan = <<>> /\ ~origSender
    /\ N \in {0, 2}
    /\ \A i \in 1..N : Len(MetricsOf(log, i)) = 1

\* The bytes of the entries xs as the writer buffers them: each followed by
\* a line break, in order.
EntryBytes(xs) == NewlineTerminated(xs)

\* The bytes handed to the append of the metrics file so far, over all calls
\* of write_buffer, in order.
RECURSIVE HandedFrom(_)
HandedFrom(k) ==
    IF k > Len(flushes) THEN <<>> ELSE flushes[k].data \o HandedFrom(k + 1)
Handed == HandedFrom(1)

\* C11  When the drop of the Metrics handle has returned, the writer thread
\* has finished, nothing is left in the queue or in the buffer, and the
\* entries submitted before the drop have all been handed to the append of
\* the metrics file, each once, in order.
C11_TeardownLosesNoEvents ==
    mpc = "dropped" =>
        /\ writer_thread = "finished"
        /\ queue = <<>>
        /\ buffer = <<>>
        /\ Handed = EntryBytes(submitted)

\* The drop has returned after three events, one flush at the threshold and
\* one at the end of the writer, one of which failed.
C11_Witness ==
    /\ mpc = "dropped"
    /\ Len(submitted) = 3
    /\ Len(flushes) = 2
    /\ Len(flushes[1].data) > FlushThreshold
    /\ \E k \in 1..2 : flushes[k].outcome # "ok"

\* No other target of the list has target i's cache key.
OwnKey(i) ==
    \A j \in 1..N : j # i => target_id(targets[j]) # target_id(targets[i])

\* What the processing of target i does when it is the first of its run to
\* arrive: handle_page_content on the table as it was before the run, with
\* the storage behaving as it did for target i.
ArrivingFirst(i) ==
    HandlePageContent(resp[i][1].body, targets[i], i, cache0,
                      GetsOf(log, i)[1].got = None,
                      ~PutsOf(log, i)[1].ok)

\* The notifications and the value written for target i are those of its
\* arriving first: they depend on the table before the run and on what the
\* fetch met, not on what arrived before it.
SameInAnyOrder(i) ==
    LET first == ArrivingFirst(i).events IN
    /\ SendsOf(log, i) = SelectSeq(first, LAMBDA e : e.op = "send")
    /\ PutsOf(log, i) = SelectSeq(first, LAMBDA e : e.op = "put")

\* C12  For a fixed table before the run and fixed fetch outcomes, the
\* notifications sent for each target and the value written to its entry do
\* not depend on the order in which the results arrive.
C12_ArrivalOrderDoesNotMatter ==
    \A i \in 1..N :
        (Handled(i) /\ GetsOf(log, i) # <<>>) => SameInAnyOrder(i)

\* C12 (amended)  The same, of every target whose cache key no other target
\* of the list has.
C12_ArrivalOrderDoesNotMatterForOwnKey ==
    \A i \in 1..N :
        (Handled(i) /\ GetsOf(log, i) # <<>> /\ OwnKey(i)) => SameInAnyOrder(i)

\* Two targets with keys of their own; the result of the second arrived and
\* was processed, with notifications, before that of the first.
C12_Witness ==
    /\ N = 2 /\ OwnKey(1)
    /\ Handled(2) /\ ~Handled(1)
    /\ SendsOf(log, 2) # <<>>
    /\ \E e \in Range(PutsOf(log, 2)) : e.ok
    /\ chan # <<>> /\ chan[1].i = 1 /\ chan[1].kind = "Ok"

\* In this step the cache is read or written, or Sender.send is called, for
\* target i.
Accesses(i) ==
    /\ Len(log'[i]) > Len(log[i])
    /\ \E k \in (Len(log[i]) + 1)..Len(log'[i]) : log'[i][k].op \in {"get", "send", "put"}

\* This step is one iteration of the receive loop of scrape(), and no step
\* of a fetch thread.
ConsumerStep ==
    /\ pc = "recv" /\ chan # <<>> /\ chan' = Tail(chan)
    /\ task' = task /\ resp' = resp

\* C13  Every step that reads or writes the cache or calls Sender.send is a
\* step of the receive loop of scrape(), never of a fetch thread, and it
\* does so for the one target whose message it took from the channel: the
\* accesses come one after the other, from one thread.
C13_OnlyTheConsumerAccesses ==
    [][ /\ (cache' # cache \/ \E i \in 1..N : Accesses(i)) => ConsumerStep
        /\ \A i, j \in 1..N : (Accesses(i) /\ Accesses(j)) => i = j
        /\ \A i \in 1..N : Accesses(i) => i = Head(chan).i
      ]_vars

\* The consumer has read and written the cache and notified for one target
\* while the fetch thread of the other is still running.
C13_Witness ==
    /\ N = 2
    /\ \E i, j \in 1..N :
          /\ task[i] = "fetching"
          /\ GetsOf(log, j) # <<>> /\ SendsOf(log, j) # <<>>
          /\ \E e \in Range(PutsOf(log, j)) : e.ok
          /\ cache # cache0

\* C14  scrape() on a Scraper of no targets returns Err.
C14_EmptyTargetListIsAnError ==
    (Returned /\ N = 0) => result = "Err"

\* Every key reads as the value of the last put that succeeded on it, and
\* as absent when no put has: a put replaces the value of its key and leaves
\* the other keys alone.
TableIsLastPuts ==
    \A k \in DOMAIN cache : DbGet(cache, k, FALSE) = kvLast[k]

\* C15  get(k) returns the value of the most recent successful put(k, v),
\* absent when k was never put, and a put(k, v) changes the result for no
\* other key.
C15_GetReturnsLastPut ==
    /\ TableIsLastPuts
    /\ kvGot # None => kvGot[1].value = kvGot[1].last

\* C15 (amended)  The same of a get that the storage serves; a get that
\* fails returns absent.
C15_GetReturnsLastPutUnlessItFails ==
    /\ TableIsLastPuts
    /\ kvGot # None =>
          kvGot[1].value = IF kvGot[1].failed THEN None ELSE kvGot[1].last

\* A get of a that returned q, the value of the last put on a that
\* succeeded, as in test_override; b was never put; one call has failed.
C15_Witness ==
    /\ kvGot # None
    /\ kvGot[1].key = <<"a">> /\ ~kvGot[1].failed
    /\ kvGot[1].value = Some(<<"q">>)
    /\ cache[<<"b">>] = None
    /\ kvOps >= 3 /\ budget < MaxFaults

\* Targets i and j are two rules on one page: the same uri, different texts.
SameUriOtherText(i, j) ==
    /\ i # j
    /\ targets[i].uri = targets[j].uri
    /\ targets[i].text # targets[j].text

\* The notifications handle_page_content sends for target j on a table that
\* is the one before the run except that target i's entry holds v.
SendsWithEntryOf(i, v, j) ==
    LET table == [cache0 EXCEPT ![target_id(targets[i])] = v]
        h == HandlePageContent(resp[j][1].body, targets[j], j, table,
                               GetsOf(log, j)[1].got = None, FALSE)
    IN  SelectSeq(h.events, LAMBDA e : e.op = "send")

\* C16  Of two targets with the same uri and different texts, processing one
\* leaves the cache entry of the other as it was, and the notifications of
\* the other are the same whatever the entry of the first holds, cleared or
\* not.
C16_SameUriOtherTextAreIndependent ==
    \A i, j \in 1..N :
        SameUriOtherText(i, j) =>
            /\ ~Handled(j) => cache[target_id(targets[j])] = cache0[target_id(targets[j])]
            /\ (Handled(j) /\ GetsOf(log, j) # <<>>) =>
                  \A v \in {None, Some(<<>>), cache[target_id(targets[i])]} :
                      SendsOf(log, j) = SendsWithEntryOf(i, v, j)

\* Two rules on one page, both processed on a page that matches both: the
\* entry of the first had been cleared and all its matches are notified,
\* the second is notified only of what its own entry did not hold.
C16_Witness ==
    /\ N = 2 /\ SameUriOtherText(1, 2)
    /\ Handled(1) /\ Handled(2)
    /\ resp[1] = Some(Http(200, PgAB)) /\ resp[2] = Some(Http(200, PgAB))
    /\ cache0[target_id(targets[1])] = Some(<<>>)
    /\ SentNow(1) = {NodeA, NodeB}
    /\ OldSet(2) = {NodeO}
    /\ SentNow(2) = {NodeB}

\* Targets i and j are the same (uri, text) pair.
SamePair(i, j) ==
    targets[i].uri = targets[j].uri /\ targets[i].text = targets[j].text

\* C17  Two targets have the same cache key exactly when they have the same
\* uri and the same text, and a target's entry is as it was before the run
\* until that target, or one of the same pair, is processed.
C17_KeyIsThePair ==
    /\ \A i, j \in 1..N :
          (target_id(targets[i]) = target_id(targets[j])) <=> SamePair(i, j)
    /\ \A j \in 1..N :
          (\A i \in 1..N : Handled(i) => ~SamePair(i, j)) =>
              cache[target_id(targets[j])] = cache0[target_id(targets[j])]

\* No element of xs occurs twice.
NoRepeats(xs) == \A a, b \in 1..Len(xs) : xs[a] = xs[b] => a = b

\* C18  Every cache value the scraper writes, split into lines, has no
\* repeated element.
C18_CacheValueHasNoRepeats ==
    \A i \in 1..N :
        \A e \in Range(PutsOf(log, i)) : e.ok => NoRepeats(Lines(e.value))

\* C19  When the lookup of a fetched target returns nothing, because the
\* get failed or the key is absent, every distinct matching fragment of the
\* content is notified, once and in order of first appearance, and the
\* processing goes on to the cache write and to the metrics event.
C19_CacheReadsFailOpen ==
    \A i \in 1..N :
        (Fetched(i) /\ Handled(i) /\ GetsOf(log, i)[1].got = None) =>
            LET frags == FirstOccurrences(Matching(resp[i][1].body, targets[i].text))
            IN  /\ SendsOf(log, i) = [k \in 1..Len(frags) |-> EvSend(i, frags[k])]
                /\ Len(PutsOf(log, i)) = 1
                /\ PutsOf(log, i)[1].value = NewlineTerminated(frags)
                /\ MetricsOf(log, i) = <<EvMetric(i, targets[i].uri, "OK")>>
                /\ log[i][Len(log[i]) - 1].op = "put"
                /\ log[i][Len(log[i])].op = "metric"

\* The entry held both fragments of the content and the get failed: both
\* are notified again, the entry is written, the metrics event recorded.
C19_Witness ==
    \E i \in 1..N :
        /\ Fetched(i) /\ Handled(i)
        /\ cache0[target_id(targets[i])] = Some(NewlineTerminated(<<NodeA, NodeB>>))
        /\ GetsOf(log, i)[1].got = None
        /\ SentNow(i) = {NodeA, NodeB}
        /\ \E e \in Range(PutsOf(log, i)) : e.ok
        /\ Len(MetricsOf(log, i)) = 1

\* The status of target i's metrics event, from what its request met: "OK"
\* when the thread got a response and its body, otherwise the status of the
\* error, "unknown" when it has none.
StatusOf(i) ==
    LET r == resp[i][1] IN
    IF r.kind = "http" THEN "OK"
    ELSE IF r.status = None THEN "unknown" ELSE ToString(r.status[1])

\* The last n elements of xs.
LastN(xs, n) == SubSeq(xs, Len(xs) - n + 1, Len(xs))

\* C20  A run submits exactly one metrics event per target of the list, with
\* status "OK" when the target's outcome was Ok(body) and the status of the
\* Err otherwise; no target has two at any time.
C20_OneMetricsEventPerTarget ==
    /\ \A i \in 1..N : Len(MetricsOf(log, i)) <= 1
    /\ Returned =>
          /\ \A i \in 1..N :
                MetricsOf(log, i) = <<EvMetric(i, targets[i].uri, StatusOf(i))>>
          /\ Len(submitted) = runs * N
          /\ LET entry(i) == FormatEntry(Now, targets[i].uri, Chars(StatusOf(i)))
                 last == LastN(submitted, N)
             IN  \A i \in 1..N :
                     Count(last, entry(i)) = Cardinality({j \in 1..N : entry(j) = entry(i)})

\* A run of two targets has returned: one got a response, the other none.
C20_Witness ==
    /\ Returned /\ N = 2
    /\ \E i, j \in 1..N :
          /\ MetricsOf(log, i) = <<EvMetric(i, targets[i].uri, "OK")>>
          /\ MetricsOf(log, j) = <<EvMetric(j, targets[j].uri, "unknown")>>
    /\ Len(submitted) = 2

\* Some call of write_buffer could not open the file or could not write all
\* of the buffer.
SinkFailed == \E k \in 1..Len(flushes) : flushes[k].outcome # "ok"

\* What the pipeline does for its targets, whatever the metrics file does:
\* a fetched target goes through lookup, notifications, a cache write that
\* succeeds and its metrics event; a run that returned returned Ok with an
\* event submitted for every target.
PipelineUntouched ==
    /\ \A i \in 1..N :
          (Fetched(i) /\ Handled(i)) =>
              /\ FullPipeline(i)
              /\ \A e \in Range(PutsOf(log, i)) : e.ok
    /\ Returned =>
          /\ result = "Ok"
          /\ \A i \in 1..N : Len(MetricsOf(log, i)) = 1

\* The writer thread ends only at teardown, with everything submitted
\* dequeued and handed to the append.
WriterOutlivesFailures ==
    writer_thread = "finished" =>
        /\ log_writer = "None"
        /\ queue = <<>>
        /\ Handed = EntryBytes(submitted)

\* C21  A failure to open or write the metrics file stays in the writer
\* thread: the pipeline does for every target what it does with a writable
\* file and scrape() returns (Ok), the writer thread goes on to dequeue every
\* later event, and once the handle's Sender is dropped the writer finishes
\* and the drop returns.
C21_SinkFailuresStayInTheSink ==
    /\ [](PipelineUntouched /\ WriterOutlivesFailures)
    /\ (pc # "idle") ~> (pc = "idle")
    /\ (queue # <<>>) ~> (queue = <<>>)
    /\ (log_writer = "None") ~> (writer_thread = "finished" /\ mpc = "dropped")

\* A run of two targets that returned Ok with both notified; the event of
\* the long uri was flushed at the threshold and the flush failed, the writer
\* went on to the other event and flushed it at teardown, and the drop has
\* returned.
C21_Witness ==
    /\ targets = <<TgtLong, TgtM>>
    /\ Returned /\ result = "Ok"
    /\ mpc = "dropped" /\ writer_thread = "finished"
    /\ Len(submitted) = 2
    /\ Len(flushes) = 2
    /\ Len(flushes[1].data) > FlushThreshold
    /\ flushes[1].outcome # "ok"
    /\ flushes[2].outcome = "ok"
    /\ file = flushes[2].data
    /\ \A i \in 1..N : FullPipeline(i) /\ SentNow(i) # {}

\* The positions in target i's log of the steps of kind op.
PositionsOf(i, op) == {k \in 1..Len(log[i]) : log[i][k].op = op}

\* Every step of kind a of target i comes before every step of kind b.
Precedes(i, a, b) ==
    \A k \in PositionsOf(i, a), l \in PositionsOf(i, b) : k < l

\* C22  For a fetched target the aggregation loop has handled, the steps
\* come in this order: the notifications, then the target's metrics event,
\* then the write of its cache entry.
C22_MetricsEventBeforeCacheWrite ==
    \A i \in 1..N :
        (Fetched(i) /\ Handled(i)) =>
            /\ PositionsOf(i, "metric") # {}
            /\ PositionsOf(i, "put") # {}
            /\ Precedes(i, "send", "metric")
            /\ Precedes(i, "metric", "put")

\* What the file can hold after the calls of write_buffer from the k-th on:
\* of each call, in order, the whole buffer when the append succeeded, and
\* what a failed open or write_all leaves of it otherwise.
RECURSIVE FileAfter(_)
FileAfter(k) ==
    IF k > Len(flushes) THEN {<<>>}
    ELSE {w \o rest : w \in Written(flushes[k].data, flushes[k].outcome),
                      rest \in FileAfter(k + 1)}

\* The k-th call of write_buffer was made by the loop, with a buffer of more
\* than 256 bytes, or it was made after the loop, when the Sender was
\* dropped, with what was left in a buffer that was not empty.
FlushIsDue(k) ==
    \/ Len(flushes[k].data) > 256
    \/ /\ k = Len(flushes)
       /\ writer_thread = "finished"
       /\ log_writer = "None"
       /\ flushes[k].data # <<>>

\* C23  The writer calls the append only with a buffer that has gone over
\* 256 bytes by the entry just added, or at the end with a buffer that is
\* not empty; each call hands over the whole buffer and empties it, so
\* between entries the buffer holds at most 256 bytes; the bytes handed
\* over, then the buffer, then the queue are the submitted entries in
\* order, each once; and the file holds, call after call, all of the buffer
\* when the append succeeded (of a failed append, the part it wrote).
C23_FlushAtThresholdAndAtTheEnd ==
    /\ \A k \in 1..Len(flushes) : FlushIsDue(k)
    /\ Len(buffer) <= 256
    /\ Handed \o buffer \o EntryBytes(queue) = EntryBytes(submitted)
    /\ writer_thread = "finished" => buffer = <<>>
    /\ file \in FileAfter(1)
    /\ ~SinkFailed => file = Handed

\* Three entries, no failure: the second took the buffer over 256 bytes and
\* was flushed with the first, the third was flushed at the end, and the
\* file holds the three in order.
C23_Witness ==
    /\ writer_thread = "finished"
    /\ Len(submitted) = 3
    /\ Len(flushes) = 2
    /\ ~SinkFailed
    /\ flushes[1].data = EntryBytes(SubSeq(submitted, 1, 2))
    /\ Len(flushes[1].data) > 256
    /\ flushes[2].data = EntryBytes(SubSeq(submitted, 3, 3))
    /\ Len(flushes[2].data) <= 256
    /\ file = EntryBytes(submitted)

\* The distinct fragments of what target i fetched, in the order of their
\* first appearance in the document.
InDocumentOrder(i) ==
    FirstOccurrences(Matching(resp[i][1].body, targets[i].text))

\* The fragments target i was notified of, in the order of the sends.
SentSeq(i) == [k \in 1..Len(SendsOf(log, i)) |-> SendsOf(log, i)[k].frag]

\* C24  In the processing of one page no fragment is notified twice, however
\* many text nodes hold it; the notifications are the new fragments and the
\* cache value all the distinct matching fragments, both in the order of
\* first appearance in the document; when the lookup returned nothing or
\* the empty string, there are as many notifications as distinct matching
\* fragments.
C24_DistinctFragmentsInDocumentOrder ==
    \A i \in 1..N :
        (Fetched(i) /\ Handled(i)) =>
            /\ \A f \in SentNow(i) : Count(SentSeq(i), f) = 1
            /\ SentSeq(i) = SelectSeq(InDocumentOrder(i), LAMBDA f : f \notin OldSet(i))
            /\ \A e \in Range(PutsOf(log, i)) :
                  e.value = NewlineTerminated(InDocumentOrder(i))
            /\ GetsOf(log, i)[1].got \in {None, Some(<<>>)} =>
                  Len(SendsOf(log, i)) = Cardinality(CurSet(i))

\* A document whose element tree yields A and B three times each, with
\* another node between them, processed against an absent entry: two
\* notifications, A then B, and the value "A\nB\n".
C24_Witness ==
    \E i \in 1..N :
        /\ Fetched(i) /\ Handled(i)
        /\ resp[i][1].body = PgAB
        /\ Count(Matching(Content(PgAB), targets[i].text), NodeB) = 3
        /\ GetsOf(log, i)[1].got = None
        /\ SentSeq(i) = <<NodeA, NodeB>>
        /\ PutsOf(log, i)[1].value = NodeA \o <<LF>> \o NodeB \o <<LF>>

\* C25  In the processing of a target every send comes before the put; a
\* value is written only with every fragment in it either sent in this
\* processing or already listed in the entry that was read; and a
\* processing that was cut short before its put, or whose put failed, leaves
\* the entry as it was, whatever it had sent.
C25_SendsBeforeThePut ==
    \A i \in 1..N :
        (Fetched(i) /\ Handled(i)) =>
            /\ Precedes(i, "send", "put")
            /\ PutsOf(log, i) # <<>> =>
                  Range(InDocumentOrder(i)) \subseteq SentNow(i) \cup OldSet(i)
            /\ (\A e \in Range(PutsOf(log, i)) : ~e.ok) =>
                  cache[target_id(targets[i])] = cache0[target_id(targets[i])]

\* A run sent B and was cut short before its put took effect; the next run
\* met the same page, found the entry as it had been, sent B again and wrote
\* it.
C25_Witness ==
    /\ hist # <<>>
    /\ Fetched(1) /\ Handled(1)
    /\ hist[1][1].resp = resp[1]
    /\ hist[1][1].sent = {NodeB}
    /\ ~hist[1][1].putOk
    /\ budget < MaxFaults
    /\ GetsOf(log, 1)[1].got = cache0[target_id(targets[1])]
    /\ SentSeq(1) = <<NodeB>>
    /\ \E e \in Range(PutsOf(log, 1)) : e.ok
    /\ NodeB \in Range(Lines(cache[target_id(targets[1])][1]))

\* How many times fragment f was sent in the current run, over all targets.
TimesSent(f) ==
    LET RECURSIVE Sum(_)
        Sum(i) == IF i > N THEN 0 ELSE Count(SentSeq(i), f) + Sum(i + 1)
    IN  Sum(1)

\* C26  Two targets of the same uri and text whose fetches both succeeded
\* with the same body, both handled, on a storage that has not failed: every
\* fragment of the body that the entry did not list when the run started
\* has been sent exactly once in the run, whichever result arrived first.
C26_DuplicateTargetsNotifyOnce ==
    \A i, j \in 1..N :
        (/\ i # j
         /\ SamePair(i, j)
         /\ Fetched(i) /\ Fetched(j)
         /\ resp[i][1].body = resp[j][1].body
         /\ Handled(i) /\ Handled(j)
         /\ budget = MaxFaults)
        => \A f \in CurSet(i) :
              LET entry == cache0[target_id(targets[i])]
                  listed == IF entry = None THEN {} ELSE Range(Lines(entry[1]))
              IN  f \notin listed => TimesSent(f) = 1

====
